---- MODULE Spec2Model ----
(***************************************************************************)
(* gitlab2jira: the two Markdown -> Jira converters of the repository.     *)
(*                                                                         *)
(*   convert_gitlab_to_jira (src/convert.py): nineteen re.sub calls run in *)
(*   a fixed order over the whole document.                                *)
(*   markdown_to_jira (src/markdown2jira.py): a line-by-line pass with a   *)
(*   stack of list markers.                                                *)
(*                                                                         *)
(* A text is a sequence of one-character strings.  The regular             *)
(* expressions of convert.py are flat sequences of anchors and quantified  *)
(* one-character classes; they are matched here by a backtracking matcher  *)
(* with Python's priorities (greedy: longest first, lazy: shortest first,  *)
(* leftmost start wins).                                                   *)
(***************************************************************************)
EXTENDS Integers, Sequences, FiniteSets, TLC

VARIABLES
    arg,            \* the markdown_text argument the function was called with
    markdown_text,  \* convert.py: the local rebound by every re.sub
    lines,          \* markdown2jira.py: markdown_text.split('\n')
    idx,            \* markdown2jira.py: position of the for loop in lines
    stack,          \* markdown2jira.py: the list hierarchy stack
    jira_lines,     \* markdown2jira.py: the output lines so far
    result,         \* the returned string (<<>> until the function returns)
    pc              \* where the call is

vars == <<arg, markdown_text, lines, idx, stack, jira_lines, result, pc>>

----------------------------------------------------------------------------
(* Characters and character classes (Python's re on str).                  *)

NL == "\n"

\* \s, and the characters str.lstrip() strips (those a TLA+ string can hold)
Whitespace == {" ", "\t", "\n", "\r", "\f"}

\* \d
Digits == {"0", "1", "2", "3", "4", "5", "6", "7", "8", "9"}

\* \w
WordChars ==
    Digits \cup {"_"} \cup
    {"a", "b", "c", "d", "e", "f", "g", "h", "i", "j", "k", "l", "m",
     "n", "o", "p", "q", "r", "s", "t", "u", "v", "w", "x", "y", "z",
     "A", "B", "C", "D", "E", "F", "G", "H", "I", "J", "K", "L", "M",
     "N", "O", "P", "Q", "R", "S", "T", "U", "V", "W", "X", "Y", "Z"}

----------------------------------------------------------------------------
(* Pattern items.  hi = -1 is "no upper limit".                            *)

Item(kind, cs, lo, hi, lazy, g) ==
    [k |-> kind, cs |-> cs, lo |-> lo, hi |-> hi, lazy |-> lazy, g |-> g]

\* ^
Bol == Item("bol", {}, 0, 0, FALSE, 0)
\* $
Eol == Item("eol", {}, 0, 0, FALSE, 0)
\* a literal character
Ch(c) == Item("set", {c}, 1, 1, FALSE, 0)
\* a class, quantified {lo,hi}, greedy, outside any group
Rep(cs, lo, hi) == Item("set", cs, lo, hi, FALSE, 0)
\* (.*) as group g
DotStar(g) == Item("dot", {}, 0, -1, FALSE, g)
\* (.*?) as group g
DotLazy(g) == Item("dot", {}, 0, -1, TRUE, g)

\* the flags of a re.sub call
MULTILINE == "M"
DOTALL == "S"

\* Does item it accept character c?  '.' rejects a newline unless DOTALL.
Accepts(it, flags, c) ==
    IF it.k = "dot" THEN (c # NL \/ DOTALL \in flags) ELSE c \in it.cs

\* ^ at pos: the start of the text, or with MULTILINE just after a newline.
AtBol(flags, s, pos) ==
    pos = 1 \/ (MULTILINE \in flags /\ s[pos - 1] = NL)

\* $ at pos: the end of the text or just before a final newline, or with
\* MULTILINE before any newline.
AtEol(flags, s, pos) ==
    \/ pos = Len(s) + 1
    \/ pos = Len(s) /\ s[pos] = NL
    \/ MULTILINE \in flags /\ pos <= Len(s) /\ s[pos] = NL

NoMatch == [ok |-> FALSE, end |-> 0, caps |-> <<>>]

RECURSIVE RunLen(_, _, _, _, _)
\* How many characters from pos on item it can take, n taken already.
RunLen(it, flags, s, pos, n) ==
    IF /\ pos + n <= Len(s)
       /\ (it.hi < 0 \/ n < it.hi)
       /\ Accepts(it, flags, s[pos + n])
    THEN RunLen(it, flags, s, pos, n + 1)
    ELSE n

RECURSIVE MatchFrom(_, _, _, _, _, _)
RECURSIVE TryCount(_, _, _, _, _, _, _, _)

\* Match items k.. of pat against s at pos: the first match in backtracking
\* order, as [ok, end (the position after the match), caps (the groups)].
MatchFrom(pat, flags, s, k, pos, caps) ==
    IF k > Len(pat) THEN [ok |-> TRUE, end |-> pos, caps |-> caps]
    ELSE LET it == pat[k] IN
         IF it.k = "bol" THEN
             IF AtBol(flags, s, pos)
             THEN MatchFrom(pat, flags, s, k + 1, pos, caps) ELSE NoMatch
         ELSE IF it.k = "eol" THEN
             IF AtEol(flags, s, pos)
             THEN MatchFrom(pat, flags, s, k + 1, pos, caps) ELSE NoMatch
         ELSE LET run == RunLen(it, flags, s, pos, 0) IN
              IF run < it.lo THEN NoMatch
              ELSE TryCount(pat, flags, s, k, pos, caps,
                            IF it.lazy THEN it.lo ELSE run, run)

\* Item k takes n characters; on failure of the rest a lazy item takes one
\* more (up to run), a greedy item one fewer (down to lo).
TryCount(pat, flags, s, k, pos, caps, n, run) ==
    LET it == pat[k]
        caps2 == IF it.g > 0
                 THEN [caps EXCEPT ![it.g] = SubSeq(s, pos, pos + n - 1)]
                 ELSE caps
        r == MatchFrom(pat, flags, s, k + 1, pos + n, caps2)
    IN  IF r.ok THEN r
        ELSE IF it.lazy
             THEN IF n < run
                  THEN TryCount(pat, flags, s, k, pos, caps, n + 1, run)
                  ELSE NoMatch
             ELSE IF n > it.lo
                  THEN TryCount(pat, flags, s, k, pos, caps, n - 1, run)
                  ELSE NoMatch

\* A replacement template is a sequence of pieces: literal text or \g.
Lit(t) == [g |-> 0, t |-> t]
Grp(g) == [g |-> g, t |-> <<>>]

RECURSIVE Expand(_, _, _)
Expand(repl, caps, k) ==
    IF k > Len(repl) THEN <<>>
    ELSE (IF repl[k].g > 0 THEN caps[repl[k].g] ELSE repl[k].t)
         \o Expand(repl, caps, k + 1)

RECURSIVE SubFrom(_, _, _, _, _)
\* re.sub from pos on: the leftmost match is replaced and the scan goes on
\* after it.  (No pattern of convert.py matches the empty string.)
SubFrom(pat, repl, flags, s, pos) ==
    IF pos > Len(s) THEN <<>>
    ELSE LET m == MatchFrom(pat, flags, s, 1, pos, <<<<>>, <<>>>>) IN
         IF m.ok /\ m.end > pos
         THEN Expand(repl, m.caps, 1) \o SubFrom(pat, repl, flags, s, m.end)
         ELSE <<s[pos]>> \o SubFrom(pat, repl, flags, s, pos + 1)

\* re.sub(pat, repl, s, flags=flags)
Sub(pat, repl, flags, s) == SubFrom(pat, repl, flags, s, 1)

----------------------------------------------------------------------------
(* convert.py: the substitutions, in source order.                         *)

Star == "*"
\* the backquote character, U+0060 (a TLA+ string cannot hold it)
Tick == "U+0060"
AnyCount == -1

\* r'^#\s+(.*)$' -> r'h1. \1', MULTILINE
SubH1(s) ==
    Sub(<<Bol, Ch("#"), Rep(Whitespace, 1, AnyCount), DotStar(1), Eol>>,
        <<Lit(<<"h", "1", ".", " ">>), Grp(1)>>, {MULTILINE}, s)

\* r'^##\s+(.*)$' -> r'h2. \1', MULTILINE
SubH2(s) ==
    Sub(<<Bol, Ch("#"), Ch("#"), Rep(Whitespace, 1, AnyCount), DotStar(1), Eol>>,
        <<Lit(<<"h", "2", ".", " ">>), Grp(1)>>, {MULTILINE}, s)

\* r'^###\s+(.*)$' -> r'h3. \1', MULTILINE
SubH3(s) ==
    Sub(<<Bol, Ch("#"), Ch("#"), Ch("#"), Rep(Whitespace, 1, AnyCount),
          DotStar(1), Eol>>,
        <<Lit(<<"h", "3", ".", " ">>), Grp(1)>>, {MULTILINE}, s)

\* r'\*\*(.*?)\*\*' -> r'*\1*'
SubBoldStar(s) ==
    Sub(<<Ch(Star), Ch(Star), DotLazy(1), Ch(Star), Ch(Star)>>,
        <<Lit(<<Star>>), Grp(1), Lit(<<Star>>)>>, {}, s)

\* r'__(.*?)__' -> r'*\1*'
SubBoldUnderscore(s) ==
    Sub(<<Ch("_"), Ch("_"), DotLazy(1), Ch("_"), Ch("_")>>,
        <<Lit(<<Star>>), Grp(1), Lit(<<Star>>)>>, {}, s)

\* r'\*(.*?)\*' -> r'_\1_'
SubItalicStar(s) ==
    Sub(<<Ch(Star), DotLazy(1), Ch(Star)>>,
        <<Lit(<<"_">>), Grp(1), Lit(<<"_">>)>>, {}, s)

\* r'_(.*?)_' -> r'_\1_'
SubItalicUnderscore(s) ==
    Sub(<<Ch("_"), DotLazy(1), Ch("_")>>,
        <<Lit(<<"_">>), Grp(1), Lit(<<"_">>)>>, {}, s)

\* r'^\s*-\s+(.*)$' -> r'- \1', MULTILINE
SubUnordered(s) ==
    Sub(<<Bol, Rep(Whitespace, 0, AnyCount), Ch("-"),
          Rep(Whitespace, 1, AnyCount), DotStar(1), Eol>>,
        <<Lit(<<"-", " ">>), Grp(1)>>, {MULTILINE}, s)

\* r'^\s{2,}-\s+(.*)$' -> r'-- \1', MULTILINE
SubUnorderedNested(s) ==
    Sub(<<Bol, Rep(Whitespace, 2, AnyCount), Ch("-"),
          Rep(Whitespace, 1, AnyCount), DotStar(1), Eol>>,
        <<Lit(<<"-", "-", " ">>), Grp(1)>>, {MULTILINE}, s)

\* r'^\s*\d+\.\s+(.*)$' -> r'# \1', MULTILINE
SubOrdered(s) ==
    Sub(<<Bol, Rep(Whitespace, 0, AnyCount), Rep(Digits, 1, AnyCount), Ch("."),
          Rep(Whitespace, 1, AnyCount), DotStar(1), Eol>>,
        <<Lit(<<"#", " ">>), Grp(1)>>, {MULTILINE}, s)

\* r'^\s{2,}\d+\.\s+(.*)$' -> r'## \1', MULTILINE
SubOrderedNested(s) ==
    Sub(<<Bol, Rep(Whitespace, 2, AnyCount), Rep(Digits, 1, AnyCount), Ch("."),
          Rep(Whitespace, 1, AnyCount), DotStar(1), Eol>>,
        <<Lit(<<"#", "#", " ">>), Grp(1)>>, {MULTILINE}, s)

\* r'\[(.*?)\]\((.*?)\)' -> r'[\1|\2]'
SubLink(s) ==
    Sub(<<Ch("["), DotLazy(1), Ch("]"), Ch("("), DotLazy(2), Ch(")")>>,
        <<Lit(<<"[">>), Grp(1), Lit(<<"|">>), Grp(2), Lit(<<"]">>)>>, {}, s)

\* r'!\[(.*?)\]\((.*?)\)' -> r'!\2|alt=\1!'
SubImage(s) ==
    Sub(<<Ch("!"), Ch("["), DotLazy(1), Ch("]"), Ch("("), DotLazy(2), Ch(")")>>,
        <<Lit(<<"!">>), Grp(2), Lit(<<"|", "a", "l", "t", "=">>), Grp(1),
          Lit(<<"!">>)>>, {}, s)

\* r'`(.*?)`' -> r'{{\1}}'
SubInlineCode(s) ==
    Sub(<<Ch(Tick), DotLazy(1), Ch(Tick)>>,
        <<Lit(<<"{", "{">>), Grp(1), Lit(<<"}", "}">>)>>, {}, s)

\* r'```(.*?)\n(.*?)```' -> r'{code:\1}\n\2\n{code}', DOTALL
SubCodeBlock(s) ==
    Sub(<<Ch(Tick), Ch(Tick), Ch(Tick), DotLazy(1), Ch(NL), DotLazy(2),
          Ch(Tick), Ch(Tick), Ch(Tick)>>,
        <<Lit(<<"{", "c", "o", "d", "e", ":">>), Grp(1), Lit(<<"}", NL>>),
          Grp(2), Lit(<<NL, "{", "c", "o", "d", "e", "}">>)>>, {DOTALL}, s)

\* r'^>\s+(.*)$' -> r'{quote}\n\1\n{quote}', MULTILINE
SubBlockquote(s) ==
    Sub(<<Bol, Ch(">"), Rep(Whitespace, 1, AnyCount), DotStar(1), Eol>>,
        <<Lit(<<"{", "q", "u", "o", "t", "e", "}", NL>>), Grp(1),
          Lit(<<NL, "{", "q", "u", "o", "t", "e", "}">>)>>, {MULTILINE}, s)

\* r'^\|(.*)\|$' -> r'||\1||', MULTILINE
SubTableRow(s) ==
    Sub(<<Bol, Ch("|"), DotStar(1), Ch("|"), Eol>>,
        <<Lit(<<"|", "|">>), Grp(1), Lit(<<"|", "|">>)>>, {MULTILINE}, s)

\* r'^\|\s*:?-+:?\s*\|' -> r'|', MULTILINE
SubTableSeparator(s) ==
    Sub(<<Bol, Ch("|"), Rep(Whitespace, 0, AnyCount), Rep({":"}, 0, 1),
          Rep({"-"}, 1, AnyCount), Rep({":"}, 0, 1),
          Rep(Whitespace, 0, AnyCount), Ch("|")>>,
        <<Lit(<<"|">>)>>, {MULTILINE}, s)

\* r'^-{3,}' -> r'----' (no flags: ^ is the start of the text only)
SubHorizontalRule(s) ==
    Sub(<<Bol, Rep({"-"}, 3, AnyCount)>>,
        <<Lit(<<"-", "-", "-", "-">>)>>, {}, s)

\* r'~~(.*?)~~' -> r'-\1-'
SubStrikethrough(s) ==
    Sub(<<Ch("~"), Ch("~"), DotLazy(1), Ch("~"), Ch("~")>>,
        <<Lit(<<"-">>), Grp(1), Lit(<<"-">>)>>, {}, s)

\* r'@(\w+)' -> r'[~\1]'
SubMention(s) ==
    Sub(<<Ch("@"), Item("set", WordChars, 1, AnyCount, FALSE, 1)>>,
        <<Lit(<<"[", "~">>), Grp(1), Lit(<<"]">>)>>, {}, s)

----------------------------------------------------------------------------
(* convert.py: convert_gitlab_to_jira, one step per commented section.     *)

\* "# Convert headers"
ConvertHeadersOf(s) == SubH3(SubH2(SubH1(s)))

\* "# Convert bold and italics"
ConvertBoldItalicsOf(s) ==
    SubItalicUnderscore(SubItalicStar(SubBoldUnderscore(SubBoldStar(s))))

\* "# Convert unordered lists"
ConvertUnorderedListsOf(s) == SubUnorderedNested(SubUnordered(s))

\* "# Convert ordered lists"
ConvertOrderedListsOf(s) == SubOrderedNested(SubOrdered(s))

\* "# Convert tables"
ConvertTablesOf(s) == SubTableSeparator(SubTableRow(s))

ConvertUnchanged == UNCHANGED <<arg, lines, idx, stack, jira_lines, result>>

ConvertHeaders ==
    /\ pc = "headers"
    /\ markdown_text' = ConvertHeadersOf(markdown_text)
    /\ pc' = "bold_italics"
    /\ ConvertUnchanged

ConvertBoldItalics ==
    /\ pc = "bold_italics"
    /\ markdown_text' = ConvertBoldItalicsOf(markdown_text)
    /\ pc' = "unordered_lists"
    /\ ConvertUnchanged

ConvertUnorderedLists ==
    /\ pc = "unordered_lists"
    /\ markdown_text' = ConvertUnorderedListsOf(markdown_text)
    /\ pc' = "ordered_lists"
    /\ ConvertUnchanged

ConvertOrderedLists ==
    /\ pc = "ordered_lists"
    /\ markdown_text' = ConvertOrderedListsOf(markdown_text)
    /\ pc' = "links"
    /\ ConvertUnchanged

ConvertLinks ==
    /\ pc = "links"
    /\ markdown_text' = SubLink(markdown_text)
    /\ pc' = "images"
    /\ ConvertUnchanged

ConvertImages ==
    /\ pc = "images"
    /\ markdown_text' = SubImage(markdown_text)
    /\ pc' = "inline_code"
    /\ ConvertUnchanged

ConvertInlineCode ==
    /\ pc = "inline_code"
    /\ markdown_text' = SubInlineCode(markdown_text)
    /\ pc' = "code_blocks"
    /\ ConvertUnchanged

ConvertCodeBlocks ==
    /\ pc = "code_blocks"
    /\ markdown_text' = SubCodeBlock(markdown_text)
    /\ pc' = "blockquotes"
    /\ ConvertUnchanged

ConvertBlockquotes ==
    /\ pc = "blockquotes"
    /\ markdown_text' = SubBlockquote(markdown_text)
    /\ pc' = "tables"
    /\ ConvertUnchanged

ConvertTables ==
    /\ pc = "tables"
    /\ markdown_text' = ConvertTablesOf(markdown_text)
    /\ pc' = "horizontal_rules"
    /\ ConvertUnchanged

ConvertHorizontalRules ==
    /\ pc = "horizontal_rules"
    /\ markdown_text' = SubHorizontalRule(markdown_text)
    /\ pc' = "strikethrough"
    /\ ConvertUnchanged

ConvertStrikethrough ==
    /\ pc = "strikethrough"
    /\ markdown_text' = SubStrikethrough(markdown_text)
    /\ pc' = "mentions"
    /\ ConvertUnchanged

ConvertMentions ==
    /\ pc = "mentions"
    /\ markdown_text' = SubMention(markdown_text)
    /\ pc' = "return"
    /\ ConvertUnchanged

\* return markdown_text
ConvertReturn ==
    /\ pc = "return"
    /\ result' = markdown_text
    /\ pc' = "converted"
    /\ UNCHANGED <<arg, markdown_text, lines, idx, stack, jira_lines>>

\* The whole function on s.
convert_gitlab_to_jira(s) ==
    SubMention(SubStrikethrough(SubHorizontalRule(ConvertTablesOf(
    SubBlockquote(SubCodeBlock(SubInlineCode(SubImage(SubLink(
    ConvertOrderedListsOf(ConvertUnorderedListsOf(ConvertBoldItalicsOf(
    ConvertHeadersOf(s)))))))))))))

----------------------------------------------------------------------------
(* The documents convert_gitlab_to_jira is called with: every              *)
(* concatenation of at most MaxFrags pieces of markup.                     *)

MaxFrags == 3

Fragments ==
    { <<Star, Star>>,                              \* **
      <<"b", "o", "l", "d">>,                        \* bold
      <<"!">>,
      <<"[", "a", "]", "(", "u", ")">>,            \* [a](u)
      <<Tick, Tick, Tick>>,                        \* a code fence
      <<"p", NL, "x", NL, "y", NL>>,               \* a tag, then two lines
      <<" ", " ">>,
      <<"-", " ", "t">>,                           \* - t
      <<"1", ".", " ", "t">>,                      \* 1. t
      <<NL>>,
      <<"-", "-", "-">>,                           \* ---
      <<"#", " ">>,
      <<">", " ">>,
      <<"|">>,
      <<"~", "~">>,
      <<"@">>,
      <<Tick>>,
      <<"_">> }

RECURSIVE DocsOf(_, _)
\* The concatenations of at most n members of frags.
DocsOf(frags, n) ==
    IF n = 0 THEN {<<>>}
    ELSE LET shorter == DocsOf(frags, n - 1)
         IN  shorter \cup {d \o f : d \in shorter, f \in frags}

ConvertDocs == DocsOf(Fragments, MaxFrags)

InitConvert ==
    /\ arg \in ConvertDocs
    /\ markdown_text = arg
    /\ lines = <<>>
    /\ idx = 0
    /\ stack = <<>>
    /\ jira_lines = <<>>
    /\ result = <<>>
    /\ pc = "headers"

NextConvert ==
    \/ ConvertHeaders
    \/ ConvertBoldItalics
    \/ ConvertUnorderedLists
    \/ ConvertOrderedLists
    \/ ConvertLinks
    \/ ConvertImages
    \/ ConvertInlineCode
    \/ ConvertCodeBlocks
    \/ ConvertBlockquotes
    \/ ConvertTables
    \/ ConvertHorizontalRules
    \/ ConvertStrikethrough
    \/ ConvertMentions
    \/ ConvertReturn

SpecConvert == InitConvert /\ [][NextConvert]_vars

----------------------------------------------------------------------------
(* markdown2jira.py: markdown_to_jira.                                     *)

RECURSIVE SplitFrom(_, _, _)
\* The pieces of s from pos on, cur being the piece under way.
SplitFrom(s, pos, cur) ==
    IF pos > Len(s) THEN <<cur>>
    ELSE IF s[pos] = NL THEN <<cur>> \o SplitFrom(s, pos + 1, <<>>)
    ELSE SplitFrom(s, pos + 1, Append(cur, s[pos]))

\* s.split('\n')
SplitLines(s) == SplitFrom(s, 1, <<>>)

RECURSIVE JoinLines(_)
\* '\n'.join(ls)
JoinLines(ls) ==
    IF Len(ls) = 0 THEN <<>>
    ELSE IF Len(ls) = 1 THEN ls[1]
    ELSE ls[1] \o <<NL>> \o JoinLines(Tail(ls))

RECURSIVE Lstrip(_)
\* line.lstrip()
Lstrip(line) ==
    IF Len(line) > 0 /\ line[1] \in Whitespace THEN Lstrip(Tail(line)) ELSE line

\* len(line) - len(stripped)
IndentLevel(line) == Len(line) - Len(Lstrip(line))

\* stripped.startswith(('1.', ..., '9.'))
IsOrdered(stripped) ==
    /\ Len(stripped) >= 2
    /\ stripped[1] \in Digits \ {"0"}
    /\ stripped[2] = "."

\* stripped.startswith(('-', '*', '+'))
IsUnordered(stripped) ==
    Len(stripped) >= 1 /\ stripped[1] \in {"-", Star, "+"}

IsListLine(line) == IsOrdered(Lstrip(line)) \/ IsUnordered(Lstrip(line))

\* "Assuming 2 spaces per indent level"
SpacesPerLevel == 2

\* depth = indent_level // 2
DepthOf(line) == IndentLevel(line) \div SpacesPerLevel

\* The pop loop left out: the stack is pushed on as it is.
PopDeeperNever(stk, depth) == stk

\* while len(stack) > depth + 1: stack.pop(): the bound off by one.
PopDeeperOffByOne(stk, depth) ==
    IF Len(stk) > depth + 1 THEN SubSeq(stk, 1, depth + 1) ELSE stk

\* while len(stack) > depth: stack.pop()
PopDeeper(stk, depth) ==
    IF Len(stk) > depth THEN SubSeq(stk, 1, depth) ELSE stk

ListChar(line) == IF IsOrdered(Lstrip(line)) THEN "#" ELSE "-"

RECURSIVE Repeat(_, _)
\* c * n
Repeat(c, n) == IF n <= 0 THEN <<>> ELSE <<c>> \o Repeat(c, n - 1)

RECURSIVE FirstSpace(_, _)
\* The position of the first ' ' of t from pos on, 0 when there is none.
FirstSpace(t, pos) ==
    IF pos > Len(t) THEN 0
    ELSE IF t[pos] = " " THEN pos
    ELSE FirstSpace(t, pos + 1)

\* stripped.split(' ', 1) has a second piece
HasSecondPiece(stripped) == FirstSpace(stripped, 1) > 0

\* stripped.split(' ', 1)[1]
SecondPiece(stripped) ==
    SubSeq(stripped, FirstSpace(stripped, 1) + 1, Len(stripped))

\* The loop body on a list line.  The stack is popped and pushed first;
\* split(' ', 1)[1] then raises IndexError when the stripped line holds no
\* space, and the call ends there.
ListLine ==
    /\ pc = "loop"
    /\ idx <= Len(lines)
    /\ IsListLine(lines[idx])
    /\ LET line == lines[idx]
           stripped == Lstrip(line)
           stk == Append(PopDeeper(stack, DepthOf(line)), ListChar(line))
       IN  /\ stack' = stk
           /\ IF HasSecondPiece(stripped)
              THEN /\ jira_lines' =
                        Append(jira_lines,
                               Repeat(ListChar(line), Len(stk)) \o <<" ">>
                                   \o SecondPiece(stripped))
                   /\ idx' = idx + 1
                   /\ pc' = "loop"
              ELSE /\ pc' = "raised"
                   /\ UNCHANGED <<jira_lines, idx>>
    /\ UNCHANGED <<arg, markdown_text, lines, result>>

\* The loop body on any other line, with the list taken to end there: the
\* stack is cleared.
NonListLineClears ==
    /\ pc = "loop"
    /\ idx <= Len(lines)
    /\ ~IsListLine(lines[idx])
    /\ jira_lines' = Append(jira_lines, lines[idx])
    /\ idx' = idx + 1
    /\ stack' = <<>>
    /\ UNCHANGED <<arg, markdown_text, lines, result, pc>>

\* The loop body on any other line: "Non-list line, add as-is".
NonListLine ==
    /\ pc = "loop"
    /\ idx <= Len(lines)
    /\ ~IsListLine(lines[idx])
    /\ jira_lines' = Append(jira_lines, lines[idx])
    /\ idx' = idx + 1
    /\ UNCHANGED <<arg, markdown_text, lines, stack, result, pc>>

\* return '\n'.join(jira_lines)
ListReturn ==
    /\ pc = "loop"
    /\ idx > Len(lines)
    /\ result' = JoinLines(jira_lines)
    /\ pc' = "returned"
    /\ UNCHANGED <<arg, markdown_text, lines, idx, stack, jira_lines>>

----------------------------------------------------------------------------
(* The documents markdown_to_jira is called with: at most MaxLines lines,  *)
(* each a body behind 0..MaxIndent spaces.                                 *)

MaxLines == 3
MaxIndent == 3

Bodies ==
    { <<"-", " ", "a">>,            \* - a
      <<"1", ".", " ", "b">>,       \* 1. b
      <<"t">>,                      \* plain text
      <<Star, "b", Star>> }         \* *b*: a marker and no space

ListLines == {Repeat(" ", n) \o b : n \in 0..MaxIndent, b \in Bodies}

RECURSIVE LineSeqs(_)
\* The sequences of at most n lines.
LineSeqs(n) ==
    IF n = 0 THEN {<<>>}
    ELSE LET shorter == LineSeqs(n - 1)
         IN  shorter \cup {Append(ls, l) : ls \in shorter, l \in ListLines}

ListDocs == {JoinLines(ls) : ls \in LineSeqs(MaxLines)}

\* The state on entry to the for loop.
InitList ==
    /\ arg \in ListDocs
    /\ markdown_text = arg
    /\ lines = SplitLines(arg)
    /\ idx = 1
    /\ stack = <<>>
    /\ jira_lines = <<>>
    /\ result = <<>>
    /\ pc = "loop"

NextList ==
    \/ ListLine
    \/ NonListLine
    \/ ListReturn

SpecList == InitList /\ [][NextList]_vars

----------------------------------------------------------------------------
(* Either function, called once.                                           *)

Init == InitConvert \/ InitList

Next == NextConvert \/ NextList

Spec == Init /\ [][Next]_vars

----------------------------------------------------------------------------
(* Properties.                                                             *)

\* The length of the marker run of an emitted list line: what precedes its
\* first space.
MarkerRun(jira_line) == FirstSpace(jira_line, 1) - 1

Min(a, b) == IF a < b THEN a ELSE b

\* t occurs in s at position pos.
StartsAt(s, t, pos) ==
    /\ pos >= 1
    /\ pos + Len(t) - 1 <= Len(s)
    /\ SubSeq(s, pos, pos + Len(t) - 1) = t

StartsWith(s, t) == StartsAt(s, t, 1)
EndsWith(s, t) == StartsAt(s, t, Len(s) - Len(t) + 1)
Contains(s, t) == \E pos \in 1..Len(s) : StartsAt(s, t, pos)

\* Lines k and k + 1 are both emitted list lines of the same depth.
SameDepthPair(k) ==
    /\ k + 1 <= Len(jira_lines)
    /\ IsListLine(lines[k])
    /\ IsListLine(lines[k + 1])
    /\ DepthOf(lines[k]) = DepthOf(lines[k + 1])

\* The list line before position idx has just been emitted.
JustEmittedListLine ==
    /\ pc = "loop"
    /\ idx > 1
    /\ IsListLine(lines[idx - 1])

\* C1: neither function ever raises: every call of convert_gitlab_to_jira
\* and of markdown_to_jira, on any input string, goes on to return a string.
C1_NeverRaises == pc # "raised"

\* C2: in markdown_to_jira every emitted list line has a marker run of
\* exactly depth + 1 characters, depth being its leading whitespace // 2,
\* whatever lines precede it, and the stack holds depth + 1 entries once the
\* line is processed.
C2_MarkerRunIsDepthPlusOne ==
    /\ \A k \in 1..Len(jira_lines) :
          IsListLine(lines[k]) =>
              MarkerRun(jira_lines[k]) = DepthOf(lines[k]) + 1
    /\ JustEmittedListLine => Len(stack) = DepthOf(lines[idx - 1]) + 1

ImageAU == <<"!", "[", "a", "]", "(", "u", ")">>
JiraImageAU == <<"!", "u", "|", "a", "l", "t", "=", "a", "!">>

\* C3: convert_gitlab_to_jira turns the image ![a](u) into !u|alt=a!.
C3_ImageConverted ==
    (pc = "converted" /\ arg = ImageAU) => result = JiraImageAU

Fence == <<Tick, Tick, Tick>>
FencedBlock == Fence \o <<"p", NL, "x", NL, "y", NL>> \o Fence

\* C4: convert_gitlab_to_jira turns a fenced block with the language tag p
\* and the two-line body x, y into {code:p}, the body with its newline kept,
\* and {code}.
C4_FencedBlockConverted ==
    (pc = "converted" /\ arg = FencedBlock) =>
        /\ StartsWith(result, <<"{", "c", "o", "d", "e", ":", "p", "}", NL>>)
        /\ Contains(result, <<"x", NL, "y">>)
        /\ EndsWith(result, <<"{", "c", "o", "d", "e", "}">>)

\* C5: convert_gitlab_to_jira("**bold**") is exactly "*bold*".
C5_BoldNotRewrapped ==
    (pc = "converted" /\ arg = <<Star, Star, "b", "o", "l", "d", Star, Star>>)
        => result = <<Star, "b", "o", "l", "d", Star>>

\* C6: convert_gitlab_to_jira emits a list item behind 2 or more spaces with
\* a doubled marker ("  - t" as "-- t", "  1. t" as "## t") and an item with
\* no indentation with a single one ("- t", "# t").
C6_IndentedItemDoubled ==
    pc = "converted" =>
        /\ \A n \in 2..4 :
              /\ arg = Repeat(" ", n) \o <<"-", " ", "t">>
                    => result = <<"-", "-", " ", "t">>
              /\ arg = Repeat(" ", n) \o <<"1", ".", " ", "t">>
                    => result = <<"#", "#", " ", "t">>
        /\ arg = <<"-", " ", "t">> => result = <<"-", " ", "t">>
        /\ arg = <<"1", ".", " ", "t">> => result = <<"#", " ", "t">>

RECURSIVE LeadingHyphens(_)
LeadingHyphens(line) ==
    IF Len(line) > 0 /\ line[1] = "-" THEN 1 + LeadingHyphens(Tail(line)) ELSE 0

\* A line with its run of 3 or more leading hyphens made ----.
RuleLine(line) ==
    IF LeadingHyphens(line) >= 3
    THEN <<"-", "-", "-", "-">>
             \o SubSeq(line, LeadingHyphens(line) + 1, Len(line))
    ELSE line

RuleLines(ls) == [k \in 1..Len(ls) |-> RuleLine(ls[k])]

\* C7: the horizontal-rule step of convert_gitlab_to_jira rewrites every line
\* of the document that starts with 3 or more hyphens, the first line and the
\* later ones alike, so that its hyphen run becomes ----.
C7_EveryRuleLineRewritten ==
    [][pc = "horizontal_rules" =>
          markdown_text' = JoinLines(RuleLines(SplitLines(markdown_text)))]_vars

\* C8 as stated: in markdown_to_jira, of two consecutive list lines at the
\* same depth the second has the strictly longer marker run.
C8_SameDepthRunGrows ==
    \A k \in 1..Len(jira_lines) :
        SameDepthPair(k) =>
            MarkerRun(jira_lines[k + 1]) > MarkerRun(jira_lines[k])

\* C8 as amended: in markdown_to_jira the stack is popped down to depth
\* entries before the push, so of two consecutive list lines at the same
\* depth d the second has a marker run of min(run of the first, d) + 1
\* characters: never shorter, never more than d + 1, and the same once it is
\* d + 1.  The marker run of a list line is the stack length after it.
C8_SameDepthRunCapped ==
    /\ \A k \in 1..Len(jira_lines) :
          SameDepthPair(k) =>
              MarkerRun(jira_lines[k + 1]) =
                  Min(MarkerRun(jira_lines[k]), DepthOf(lines[k])) + 1
    /\ JustEmittedListLine => Len(stack) = MarkerRun(jira_lines[idx - 1])

\* Two consecutive list lines at the same depth were emitted with marker
\* runs of the same length, depth + 1.
C8_SameDepthRunStays ==
    \E k \in 1..Len(jira_lines) :
        /\ SameDepthPair(k)
        /\ MarkerRun(jira_lines[k]) = DepthOf(lines[k]) + 1
        /\ MarkerRun(jira_lines[k + 1]) = MarkerRun(jira_lines[k])

RECURSIVE PrevListLine(_)
\* The position of the last list line before line m, 0 when there is none.
PrevListLine(m) ==
    IF m <= 1 THEN 0
    ELSE IF IsListLine(lines[m - 1]) THEN m - 1
    ELSE PrevListLine(m - 1)

\* The marker run of the last list line before line m, 0 when there is none.
RunBefore(m) ==
    IF PrevListLine(m) = 0 THEN 0 ELSE MarkerRun(jira_lines[PrevListLine(m)])

\* C9: in markdown_to_jira a line that is not a list line is emitted
\* unchanged at its own position (in jira_lines, and in the returned text)
\* and leaves the stack as the last list line before it left it, so a list
\* line after non-list lines is numbered from that stack: its marker run is
\* min(run of the last list line before, depth) + 1.
C9_NonListLinesVerbatim ==
    /\ \A k \in 1..Len(jira_lines) :
          ~IsListLine(lines[k]) => jira_lines[k] = lines[k]
    /\ pc = "returned" =>
          /\ Len(SplitLines(result)) = Len(lines)
          /\ \A k \in 1..Len(lines) :
                ~IsListLine(lines[k]) => SplitLines(result)[k] = lines[k]
    /\ (pc = "loop" /\ idx > 1 /\ ~IsListLine(lines[idx - 1])) =>
          Len(stack) = RunBefore(idx)
    /\ \A m \in 2..Len(jira_lines) :
          (IsListLine(lines[m]) /\ ~IsListLine(lines[m - 1])) =>
              MarkerRun(jira_lines[m]) =
                  Min(RunBefore(m), DepthOf(lines[m])) + 1

\* A nested list line was emitted with a marker run of 2 or more right after
\* a non-list line: the stack of the list line before that one was kept.
C9_ListResumedAfterText ==
    \E m \in 2..Len(jira_lines) :
        /\ IsListLine(lines[m])
        /\ ~IsListLine(lines[m - 1])
        /\ PrevListLine(m) > 0
        /\ MarkerRun(jira_lines[m]) >= 2

\* C10: in markdown_to_jira every list line leaves a stack of length L with
\* 1 <= L <= depth + 1 and L <= (length before) + 1, L being depth + 1
\* exactly when the length before was at least depth; the marker run the
\* line is emitted with has L characters.
C10_StackLengthAfterListLine ==
    [][(pc = "loop" /\ idx <= Len(lines) /\ IsListLine(lines[idx])) =>
          LET d == DepthOf(lines[idx])
              L == Len(stack')
          IN  /\ 1 <= L
              /\ L <= d + 1
              /\ L <= Len(stack) + 1
              /\ (L = d + 1) <=> (Len(stack) >= d)
              /\ pc' = "loop" => MarkerRun(jira_lines'[idx]) = L]_vars

\* A list line indented deeper than the stack had reached was just emitted
\* with a marker run shorter than depth + 1.
C10_DeepLineShortRun ==
    /\ JustEmittedListLine
    /\ Len(stack) < DepthOf(lines[idx - 1]) + 1
    /\ MarkerRun(jira_lines[idx - 1]) = Len(stack)

====
